---- MODULE Spec2Model ----
(***************************************************************************)
(* The research session pipeline of the two web front ends:                *)
(*   src/ui/gradio_app.py     GradioResearchInterface                      *)
(*   src/ui/streamlit_app.py  StreamlitResearchInterface                   *)
(* One state machine: ui says which of the two applications was launched.  *)
(* Every handler is cut at its observable code positions (pc); the agent   *)
(* and the memory subsystem are external and answer nondeterministically.  *)
(***************************************************************************)
EXTENDS Integers, Sequences, FiniteSets, TLC

VARIABLES
    ui,                \* "gradio" | "streamlit": the application that runs
    pc,                \* position of the running handler, "idle" between handlers
    agent,             \* GradioResearchInterface.agent: "None" | an agent object
    created,           \* how many times create_agent() has returned an agent to Gradio
    local_agent,       \* the local agent of the running conduct_research call
    peer,              \* the locals of a conduct_research call on another worker thread
    research_history,  \* self.research_history / st.session_state.research_history
    current_research,  \* st.session_state.current_research: <<>> (None) | <<record>>
    question,          \* the question argument of the running research call
    result,            \* the local result: <<>> (None, unset) | <<dict>>
    exc,               \* the exception in flight: <<>> | <<message>>
    invokes,           \* agent.invoke calls made by the running research call
    clock,             \* datetime.now()
    history_at_call,   \* research_history as it was when the last research call started
    outputs,           \* what conduct_research returned (the four output components)
    view,              \* what the last handler returned, when it was a query (else NoView);
                       \* in Streamlit, what the sidebar lists
    widgets,           \* the Streamlit progress widgets of run_research_with_progress
    i                  \* loop variable of execute_research_with_updates

vars == <<ui, pc, agent, created, local_agent, peer, research_history, current_research,
          question, result, exc, invokes, clock, history_at_call, outputs, view, widgets, i>>

-----------------------------------------------------------------------------
(* Bounds *)

MaxHistory == 6
MaxTokens == 3        \* tokens of an analysis text
MaxSources == 2       \* sources of one kind a finding used
MaxWait == 1          \* how far datetime.now() may have moved on when it is read
MaxShared == 1        \* records in the history up to which concurrent calls still arrive

(* Program constants *)

HistoryWindow == 5
QuestionPreview == 100
SimulatedSteps == 3

-----------------------------------------------------------------------------
(* Python values.  Numbers are held in thousandths (7 is Num(7000), 0.8 is  *)
(* Num(800)); a dict is a function whose DOMAIN is the set of keys present. *)

Num(n) == [t |-> "num", v |-> n]
Str(s) == [t |-> "str", v |-> s]
Lit(s) == [t |-> "lit", v |-> s]

EmptyDict == [k \in {} |-> 0]

Get(d, k, default) == IF k \in DOMAIN d THEN d[k] ELSE default

IsNum(x) == x.t = "num"

Min(S) == CHOOSE x \in S : \A y \in S : x <= y
Max(S) == CHOOSE x \in S : \A y \in S : x >= y

Whitespace == {" "}

\* str.strip(): the text without its leading and trailing whitespace
Strip(s) ==
    LET keep == {k \in 1..Len(s) : s[k] \notin Whitespace}
    IN  IF keep = {} THEN <<>> ELSE SubSeq(s, Min(keep), Max(keep))

\* seq[-n:]
LastN(s, n) == SubSeq(s, Max({1, Len(s) - n + 1}), Len(s))

\* format(x, ".2f") of a number: two decimals, rounded to nearest (none of the
\* model's values lies halfway between two roundings)
Fmt2f(x) == [t |-> "f2", v |-> (x.v + 5) \div 10]

Ok(v) == [raised |-> FALSE, value |-> v]
Raise(e) == [raised |-> TRUE, exc |-> e]

\* bool(x) of a dict or a list: not empty
Truthy(x) == DOMAIN x # {}

\* the first exception a sequence of outcomes raises, evaluated left to right
FirstRaised(outs) ==
    LET bad == {k \in 1..Len(outs) : outs[k].raised}
    IN  IF bad = {} THEN <<>> ELSE <<outs[Min(bad)].exc>>

\* [f(x) for x in s] flattened, when no element raises
RECURSIVE Flatten(_)
Flatten(ss) == IF ss = <<>> THEN <<>> ELSE Head(ss) \o Flatten(Tail(ss))

-----------------------------------------------------------------------------
(* Result aggregation: conduct_research, gradio_app.py lines 75-129 *)

NoFinalAnswer == Str("No final answer generated")

\* lines 78-89
ProcessSummary(r) ==
    LET research_plan == Get(r, "research_plan", <<>>)
        findings      == Get(r, "findings", <<>>)
        consulted     == {k \in 1..Len(findings) :
                            Truthy(Get(findings[k], "external_research", <<>>))}
    IN  Ok(<<[k |-> "header", text |-> "## Research Process"],
             [k |-> "header", text |-> "### Research Plan:"]>>
           \o [n \in 1..Len(research_plan) |->
                 [k |-> "plan_step", n |-> n, text |-> research_plan[n]]]
           \o <<[k |-> "header", text |-> "### Findings Summary:"],
                [k |-> "total_steps", n |-> Len(findings)],
                [k |-> "external_consulted", n |-> Cardinality(consulted)]>>)

\* lines 95-101
MultiAgentLines(r) ==
    LET multi_agent_analysis == Get(r, "multi_agent_analysis", EmptyDict)
        confidence_scores    == Get(multi_agent_analysis, "confidence_scores", EmptyDict)
    IN  IF Truthy(multi_agent_analysis)
        THEN <<[k |-> "header", text |-> "### Multi-Agent Collaboration:"],
               [k |-> "researcher", v |-> Fmt2f(Get(confidence_scores, "researcher_avg", Num(0)))],
               [k |-> "critic", v |-> Fmt2f(Get(confidence_scores, "critic_avg", Num(0)))],
               [k |-> "synthesizer", v |-> Fmt2f(Get(confidence_scores, "synthesis_confidence", Num(0)))]>>
        ELSE <<>>

\* lines 107-110, one hypothesis: hyp['statement'], hyp['type'], hyp['confidence']:.2f
HypothesisLines(n, hyp) ==
    IF "statement" \notin DOMAIN hyp THEN Raise("KeyError: 'statement'")
    ELSE IF "type" \notin DOMAIN hyp THEN Raise("KeyError: 'type'")
    ELSE IF "confidence" \notin DOMAIN hyp THEN Raise("KeyError: 'confidence'")
    ELSE IF ~IsNum(hyp["confidence"])
         THEN Raise("ValueError: Unknown format code 'f' for object of type 'str'")
    ELSE Ok(<<[k |-> "hypothesis", n |-> n, text |-> hyp["statement"]],
              [k |-> "hyp_type", v |-> hyp["type"]],
              [k |-> "hyp_confidence", v |-> Fmt2f(hyp["confidence"])]>>)

\* lines 92-110
IntelligenceSummary(r) ==
    LET hypotheses == Get(r, "hypotheses", <<>>)
        each       == [n \in 1..Len(hypotheses) |-> HypothesisLines(n, hypotheses[n])]
        raised     == FirstRaised(each)
    IN  IF raised # <<>> THEN Raise(raised[1])
        ELSE Ok(<<[k |-> "header", text |-> "## Intelligence Analysis"]>>
                \o MultiAgentLines(r)
                \o (IF Truthy(hypotheses)
                    THEN <<[k |-> "header", text |-> "### Generated Hypotheses:"]>>
                         \o Flatten([n \in 1..Len(hypotheses) |-> each[n].value])
                    ELSE <<>>))

\* lines 113-127
QualitySummary(r) ==
    LET quality_assessment == Get(r, "quality_assessment", EmptyDict)
        confidence         == Get(quality_assessment, "confidence_assessment", Str("N/A"))
        quality_indicators == Get(quality_assessment, "quality_indicators", <<>>)
    IN  IF ~Truthy(quality_assessment)
        THEN Ok(<<[k |-> "header", text |-> "## Quality Assessment"]>>)
        ELSE IF ~IsNum(confidence)
        THEN Raise("ValueError: Unknown format code 'f' for object of type 'str'")
        ELSE Ok(<<[k |-> "header", text |-> "## Quality Assessment"],
                  [k |-> "overall", v |-> Get(quality_assessment, "overall_quality_score", Str("N/A")),
                                    suffix |-> "/10"],
                  [k |-> "confidence", v |-> Fmt2f(confidence)],
                  [k |-> "total_findings", v |-> Get(quality_assessment, "total_findings", Num(0))],
                  [k |-> "external_sources_used",
                       v |-> Get(quality_assessment, "external_sources_used", Num(0))],
                  [k |-> "source_diversity", v |-> Get(quality_assessment, "source_diversity", Num(0))],
                  [k |-> "header", text |-> "### Quality Indicators:"]>>
                \o [n \in 1..Len(quality_indicators) |->
                      [k |-> "indicator",
                       icon |-> IF quality_indicators[n].status THEN "ok" ELSE "no",
                       title |-> quality_indicators[n].name]])

\* lines 75-129: the four outputs, or the first exception the formatting raises
FormatResults(r) ==
    LET process      == ProcessSummary(r)
        intelligence == IntelligenceSummary(r)
        quality      == QualitySummary(r)
        raised       == FirstRaised(<<process, intelligence, quality>>)
    IN  IF raised # <<>> THEN Raise(raised[1])
        ELSE Ok([final_answer |-> Get(r, "final_answer", NoFinalAnswer),
                 process      |-> process.value,
                 intelligence |-> intelligence.value,
                 quality      |-> quality.value])

\* line 42
PleaseEnter ==
    [final_answer |-> Lit("Please enter a research question."),
     process |-> <<>>, intelligence |-> <<>>, quality |-> <<>>]

\* lines 132-133: f"Research failed: {str(e)}", "", "", ""
ResearchFailed(e) ==
    [final_answer |-> [t |-> "failed", v |-> e],
     process |-> <<>>, intelligence |-> <<>>, quality |-> <<>>]

\* the outputs before any research call returned
NoOutputs ==
    [final_answer |-> Lit(""), process |-> <<>>, intelligence |-> <<>>, quality |-> <<>>]

\* lines 67-72 (Gradio) and 804-809 (Streamlit): the history record of a result
ResearchRecord(q, r, now) ==
    [question      |-> q,
     result        |-> r,
     timestamp     |-> now,
     quality_score |-> Get(Get(r, "quality_assessment", EmptyDict),
                           "overall_quality_score", Str("N/A"))]

-----------------------------------------------------------------------------
(* The external collaborators: what the agent may return or raise *)

Finding0 ==
    [step |-> 0, step_description |-> "Define terms",
     sources_used |-> [memory_basic |-> 1, memory_advanced |-> 0, external_sources |-> 2],
     external_research |-> <<"snippet">>,
     analysis |-> "KEY_FINDINGS: entanglement is... NEW_CONCEPTS: none"]

FullQuality ==
    [overall_quality_score |-> Num(7000), confidence_assessment |-> Num(800),
     total_findings |-> Num(1000), external_sources_used |-> Num(2000),
     source_diversity |-> Num(1000),
     quality_indicators |-> <<[name |-> "has_external_validation", status |-> TRUE]>>]

FullResult ==
    [final_answer |-> Str("..."), research_plan |-> <<"Define terms", "Survey literature">>,
     findings |-> <<Finding0>>, hypotheses |-> <<>>, quality_assessment |-> FullQuality]

\* a quality assessment that carries a score and no confidence_assessment
ScoreOnlyResult ==
    [final_answer |-> Str("..."), quality_assessment |-> [overall_quality_score |-> Num(7000)]]

\* agent.invoke(initial_state) returns one of these
AgentResults == {FullResult, ScoreOnlyResult, EmptyDict}

\* create_agent() and agent.invoke() raise one of these
AgentErrors == {"AgentInvocationError: timeout", "AgentInvocationError: rate limit"}

\* the texts a user submits: "", " ", " q"
Questions == {<<>>, <<" ">>, <<" ", "q">>}

-----------------------------------------------------------------------------
(* Streamlit progress widgets, run_research_with_progress lines 229-246 *)

FreshWidgets ==
    [overall_progress      |-> 0,        \* in hundredths
     current_step_progress |-> 0,        \* in thirds
     status_text           |-> "",
     current_step_text     |-> 0,
     planning_status       |-> "",
     research_status       |-> "",
     intelligence_status   |-> "",
     synthesis_status      |-> "",
     error                 |-> <<>>]

NoView == [fn |-> "", entries |-> <<>>]

\* the locals of a conduct_research call: those of a call that has not started
NoCall ==
    [pc |-> "idle", question |-> <<>>, result |-> <<>>, exc |-> <<>>, invokes |-> 0,
     local_agent |-> "None", history_at_call |-> <<>>, outputs |-> NoOutputs]

Init ==
    /\ ui \in {"gradio", "streamlit"}
    /\ pc = "idle"
    /\ agent = "None"
    /\ created = 0
    /\ local_agent = "None"
    /\ peer = NoCall
    /\ research_history = <<>>
    /\ current_research = <<>>
    /\ question = <<>>
    /\ result = <<>>
    /\ exc = <<>>
    /\ invokes = 0
    /\ clock = 1
    /\ history_at_call = <<>>
    /\ outputs = NoOutputs
    /\ view = NoView
    /\ widgets = FreshWidgets
    /\ i = 0

-----------------------------------------------------------------------------
(* GradioResearchInterface *)

\* ConductResearch with the question tested untrimmed ("if not question:")
ConductResearchNoStrip(q) ==
    /\ ui = "gradio" /\ pc = "idle"
    /\ question' = q
    /\ result' = <<>>
    /\ exc' = <<>>
    /\ invokes' = 0
    /\ history_at_call' = research_history
    /\ IF q = <<>>
       THEN outputs' = PleaseEnter /\ UNCHANGED pc
       ELSE /\ Len(research_history) < MaxHistory
            /\ pc' = "g_try"
            /\ UNCHANGED outputs
    /\ local_agent' = "None"
    /\ view' = NoView
    /\ UNCHANGED <<ui, created, peer, agent, research_history, current_research, clock,
                   widgets, i>>

\* conduct_research, lines 37-44: the call and the blank-question check
ConductResearch(q) ==
    /\ ui = "gradio" /\ pc = "idle"
    /\ question' = q
    /\ result' = <<>>
    /\ exc' = <<>>
    /\ invokes' = 0
    /\ history_at_call' = research_history
    /\ IF Strip(q) = <<>>
       THEN outputs' = PleaseEnter /\ UNCHANGED pc
       ELSE /\ Len(research_history) < MaxHistory
            /\ pc' = "g_try"
            /\ UNCHANGED outputs
    /\ local_agent' = "None"
    /\ view' = NoView
    /\ UNCHANGED <<ui, created, peer, agent, research_history, current_research, clock,
                   widgets, i>>

\* the objects create_agent() returns to the interface, in the order of the calls
AgentObjects == <<"agent", "agent2">>

\* initialize_agent, line 33, called at line 46: if self.agent is None
InitializeAgent ==
    /\ pc = "g_try"
    /\ pc' = IF agent = "None" THEN "g_create" ELSE "g_return"
    /\ UNCHANGED <<ui, created, local_agent, peer, agent, research_history, current_research,
                   question, result, exc, invokes, clock, history_at_call, outputs, view,
                   widgets, i>>

\* initialize_agent, line 34: self.agent = create_agent()
CreateAgent ==
    /\ pc = "g_create"
    /\ \/ /\ agent' = AgentObjects[created + 1]
          /\ created' = created + 1
          /\ pc' = "g_return"
          /\ UNCHANGED exc
       \/ \E e \in AgentErrors :
             exc' = <<e>> /\ pc' = "g_except" /\ UNCHANGED <<agent, created>>
    /\ UNCHANGED <<ui, local_agent, peer, research_history, current_research, question,
                   result, invokes, clock, history_at_call, outputs, view, widgets, i>>

\* initialize_agent, line 35, and line 46: agent = (return self.agent)
ReturnAgent ==
    /\ pc = "g_return"
    /\ local_agent' = agent
    /\ pc' = "g_invoke"
    /\ UNCHANGED <<ui, created, peer, agent, research_history, current_research, question,
                   result, exc, invokes, clock, history_at_call, outputs, view, widgets, i>>

\* lines 49-64: agent.invoke(initial_state) is called
GInvoke ==
    /\ pc = "g_invoke"
    /\ pc' = "g_invoking"
    /\ invokes' = invokes + 1
    /\ UNCHANGED <<ui, created, local_agent, peer, agent, research_history, current_research,
                   question, result, exc, clock, history_at_call, outputs, view, widgets, i>>

\* line 64: the blocking call returns a result or raises
GAgentReturns ==
    /\ pc = "g_invoking"
    /\ \/ \E r \in AgentResults : result' = <<r>> /\ pc' = "g_store" /\ UNCHANGED exc
       \/ \E e \in AgentErrors : exc' = <<e>> /\ pc' = "g_except" /\ UNCHANGED result
    /\ UNCHANGED <<ui, created, local_agent, peer, agent, research_history, current_research,
                   question, invokes, clock, history_at_call, outputs, view, widgets, i>>

\* lines 66-73: store in history
GStore ==
    /\ pc = "g_store"
    /\ research_history' = Append(research_history, ResearchRecord(question, result[1], clock))
    /\ clock' = clock + 1
    /\ pc' = "g_format"
    /\ UNCHANGED <<ui, created, local_agent, peer, agent, current_research, question, result,
                   exc, invokes, history_at_call, outputs, view, widgets, i>>

\* lines 75-129: format the results and return them
GFormat ==
    /\ pc = "g_format"
    /\ LET formatted == FormatResults(result[1])
       IN  IF formatted.raised
           THEN exc' = <<formatted.exc>> /\ pc' = "g_except" /\ UNCHANGED outputs
           ELSE outputs' = formatted.value /\ pc' = "idle" /\ UNCHANGED exc
    /\ UNCHANGED <<ui, created, local_agent, peer, agent, research_history, current_research,
                   question, result, invokes, clock, history_at_call, view, widgets, i>>

\* GExcept reporting a fixed text in place of str(e)
GExceptGeneric ==
    /\ pc = "g_except"
    /\ outputs' = ResearchFailed("")
    /\ pc' = "idle"
    /\ UNCHANGED <<ui, created, local_agent, peer, agent, research_history, current_research,
                   question, result, exc, invokes, clock, history_at_call, view, widgets, i>>

\* GExcept calling the agent a second time when the first call raised
GExceptRetry ==
    /\ pc = "g_except"
    /\ IF invokes = 1 /\ result = <<>>
       THEN pc' = "g_invoke" /\ exc' = <<>> /\ UNCHANGED outputs
       ELSE outputs' = ResearchFailed(exc[1]) /\ pc' = "idle" /\ UNCHANGED exc
    /\ UNCHANGED <<ui, created, local_agent, peer, agent, research_history, current_research,
                   question, result, invokes, clock, history_at_call, view, widgets, i>>

\* lines 131-133: except Exception as e
GExcept ==
    /\ pc = "g_except"
    /\ outputs' = ResearchFailed(exc[1])
    /\ pc' = "idle"
    /\ UNCHANGED <<ui, created, local_agent, peer, agent, research_history, current_research,
                   question, result, exc, invokes, clock, history_at_call, view, widgets, i>>

\* get_research_history, lines 169-182
HistoryText(history) ==
    IF ~Truthy(history)
    THEN [fn |-> "get_research_history", entries |-> <<>>]
    ELSE LET recent == LastN(history, HistoryWindow)
         IN  [fn |-> "get_research_history",
              entries |-> [n \in 1..Len(recent) |->
                             [label         |-> n,
                              question      |-> recent[n].question,
                              quality_score |-> recent[n].quality_score,
                              timestamp     |-> recent[n].timestamp]]]

\* GetResearchHistory keeping only the listed records in the history
GetResearchHistoryTrim ==
    /\ ui = "gradio" /\ pc = "idle"
    /\ view' = HistoryText(research_history)
    /\ research_history' = LastN(research_history, HistoryWindow)
    /\ UNCHANGED <<ui, created, local_agent, peer, pc, agent, current_research, question,
                   result, exc, invokes, clock, history_at_call, outputs, widgets, i>>

GetResearchHistory ==
    /\ ui = "gradio" /\ pc = "idle"
    /\ view' = HistoryText(research_history)
    /\ UNCHANGED <<ui, created, local_agent, peer, pc, agent, research_history,
                   current_research, question, result, exc, invokes, clock, history_at_call,
                   outputs, widgets, i>>

\* get_memory_statistics, lines 150-167: the statistics text, or the error text
GetMemoryStatistics ==
    /\ ui = "gradio" /\ pc = "idle"
    /\ \E text \in {"## Memory System Statistics", "Error retrieving memory statistics"} :
          view' = [fn |-> "get_memory_statistics", entries |-> <<[text |-> text]>>]
    /\ UNCHANGED <<ui, created, local_agent, peer, pc, agent, research_history,
                   current_research, question, result, exc, invokes, clock, history_at_call,
                   outputs, widgets, i>>

\* export_research_results, lines 184-210, on the four output components.
\* Line 188 refuses an empty first output and one that starts with "Please enter"
\* or "Research failed"; the agent's answers of AgentResults start with neither.
ExportResearchResults ==
    /\ ui = "gradio" /\ pc = "idle"
    /\ view' = [fn |-> "export_research_results",
                entries |-> IF \/ outputs.final_answer.v = ""
                               \/ outputs.final_answer.t \in {"lit", "failed"}
                            THEN <<>>
                            ELSE <<[generated_on |-> clock, content |-> outputs]>>]
    /\ UNCHANGED <<ui, created, local_agent, peer, pc, agent, research_history,
                   current_research, question, result, exc, invokes, clock, history_at_call,
                   outputs, widgets, i>>

-----------------------------------------------------------------------------
(* StreamlitResearchInterface *)

\* render_sidebar, lines 138-147: the recent research expanders
SidebarHistory(history) ==
    IF ~Truthy(history)
    THEN [fn |-> "render_sidebar", entries |-> <<>>]
    ELSE LET recent == LastN(history, HistoryWindow)
         IN  [fn |-> "render_sidebar",
              entries |-> [n \in 1..Len(recent) |->
                             [label         |-> Len(history) - (n - 1),
                              question      |-> SubSeq(recent[n].question, 1,
                                                  Min({QuestionPreview, Len(recent[n].question)})),
                              quality_score |-> recent[n].quality_score,
                              timestamp     |-> recent[n].timestamp]]]

\* run, lines 786-800 and 816-820: one rerun of the script, up to the research call.
\* A rerun draws the page anew: the sidebar lists the history as it is now and the
\* progress widgets of an earlier run are gone.
Run(q, start_research) ==
    /\ ui = "streamlit" /\ pc = "idle"
    /\ view' = SidebarHistory(research_history)
    /\ widgets' = FreshWidgets
    /\ question' = q
    /\ result' = <<>>
    /\ exc' = <<>>
    /\ invokes' = 0
    /\ history_at_call' = research_history
    /\ IF start_research /\ Strip(q) # <<>>
       THEN Len(research_history) < MaxHistory /\ pc' = "s_try"
       ELSE UNCHANGED pc
    /\ UNCHANGED <<ui, created, local_agent, peer, agent, research_history, current_research,
                   clock, outputs, i>>

\* run_research_with_progress, line 250: create_agent()
SCreateAgent ==
    /\ pc = "s_try"
    /\ \/ pc' = "s_planning" /\ UNCHANGED exc
       \/ \E e \in AgentErrors : exc' = <<e>> /\ pc' = "s_except"
    /\ UNCHANGED <<ui, created, local_agent, peer, agent, research_history, current_research,
                   question, result, invokes, clock, history_at_call, outputs, view, widgets,
                   i>>

\* lines 267-270
SPlanning ==
    /\ pc = "s_planning"
    /\ widgets' = [widgets EXCEPT !.planning_status = "success: Planning",
                                  !.status_text = "info: Creating research plan...",
                                  !.overall_progress = 10]
    /\ pc' = "s_researching"
    /\ UNCHANGED <<ui, created, local_agent, peer, agent, research_history, current_research,
                   question, result, exc, invokes, clock, history_at_call, outputs, view, i>>

\* execute_research_with_updates, lines 306-308
SResearching ==
    /\ pc = "s_researching"
    /\ widgets' = [widgets EXCEPT !.status_text = "info: Executing research steps...",
                                  !.overall_progress = 30,
                                  !.research_status = "warning: Research"]
    /\ i' = 0
    /\ pc' = "s_loop"
    /\ UNCHANGED <<ui, created, local_agent, peer, agent, research_history, current_research,
                   question, result, exc, invokes, clock, history_at_call, outputs, view>>

\* SStep with the loop counter set back after the last pass
SStepAgain ==
    /\ pc = "s_loop" /\ i < SimulatedSteps
    /\ widgets' = [widgets EXCEPT !.current_step_text = i + 1,
                                  !.current_step_progress = i + 1]
    /\ i' = (i + 1) % SimulatedSteps
    /\ UNCHANGED <<ui, created, local_agent, peer, pc, agent, research_history,
                   current_research, question, result, exc, invokes, clock, history_at_call,
                   outputs, view>>

\* lines 311-314: one pass of for i in range(3)
SStep ==
    /\ pc = "s_loop" /\ i < SimulatedSteps
    /\ widgets' = [widgets EXCEPT !.current_step_text = i + 1,
                                  !.current_step_progress = i + 1]
    /\ i' = i + 1
    /\ UNCHANGED <<ui, created, local_agent, peer, pc, agent, research_history,
                   current_research, question, result, exc, invokes, clock, history_at_call,
                   outputs, view>>

\* lines 316-320
SAnalyzing ==
    /\ pc = "s_loop" /\ i >= SimulatedSteps
    /\ widgets' = [widgets EXCEPT !.status_text = "info: Running intelligence analysis...",
                                  !.overall_progress = 70,
                                  !.intelligence_status = "warning: Intelligence"]
    /\ pc' = "s_synthesizing"
    /\ UNCHANGED <<ui, created, local_agent, peer, agent, research_history, current_research,
                   question, result, exc, invokes, clock, history_at_call, outputs, view, i>>

\* SSynthesizing that leaves its three updates for after the agent call
SSynthesizingLate ==
    /\ pc = "s_synthesizing"
    /\ pc' = "s_invoke"
    /\ UNCHANGED <<ui, created, local_agent, peer, agent, research_history, current_research,
                   question, result, exc, invokes, clock, history_at_call, outputs, view,
                   widgets, i>>

\* SSynthesizing with the overall progress set back to 0.5
SSynthesizingLow ==
    /\ pc = "s_synthesizing"
    /\ widgets' = [widgets EXCEPT !.status_text = "info: Synthesizing final answer...",
                                  !.overall_progress = 50,
                                  !.synthesis_status = "warning: Synthesis"]
    /\ pc' = "s_invoke"
    /\ UNCHANGED <<ui, created, local_agent, peer, agent, research_history, current_research,
                   question, result, exc, invokes, clock, history_at_call, outputs, view, i>>

\* lines 322-326
SSynthesizing ==
    /\ pc = "s_synthesizing"
    /\ widgets' = [widgets EXCEPT !.status_text = "info: Synthesizing final answer...",
                                  !.overall_progress = 90,
                                  !.synthesis_status = "warning: Synthesis"]
    /\ pc' = "s_invoke"
    /\ UNCHANGED <<ui, created, local_agent, peer, agent, research_history, current_research,
                   question, result, exc, invokes, clock, history_at_call, outputs, view, i>>

\* line 329: agent.invoke(initial_state) is called
SInvoke ==
    /\ pc = "s_invoke"
    /\ pc' = "s_invoking"
    /\ invokes' = invokes + 1
    /\ UNCHANGED <<ui, created, local_agent, peer, agent, research_history, current_research,
                   question, result, exc, clock, history_at_call, outputs, view, widgets, i>>

\* line 329: the blocking call returns a result or raises
SAgentReturns ==
    /\ pc = "s_invoking"
    /\ \/ \E r \in AgentResults : result' = <<r>> /\ pc' = "s_complete" /\ UNCHANGED exc
       \/ \E e \in AgentErrors : exc' = <<e>> /\ pc' = "s_except" /\ UNCHANGED result
    /\ UNCHANGED <<ui, created, local_agent, peer, agent, research_history, current_research,
                   question, invokes, clock, history_at_call, outputs, view, widgets, i>>

\* run_research_with_progress, lines 280-291: the final progress update, return result
SComplete ==
    /\ pc = "s_complete"
    /\ widgets' = [widgets EXCEPT !.overall_progress = 100,
                                  !.current_step_progress = SimulatedSteps,
                                  !.status_text = "success: Research completed successfully!",
                                  !.planning_status = "success: done",
                                  !.research_status = "success: done",
                                  !.intelligence_status = "success: done",
                                  !.synthesis_status = "success: done"]
    /\ pc' = "s_returned"
    /\ UNCHANGED <<ui, created, local_agent, peer, agent, research_history, current_research,
                   question, result, exc, invokes, clock, history_at_call, outputs, view, i>>

\* SExcept followed by the final progress update (the update moved to a finally)
SExceptThenComplete ==
    /\ pc = "s_except"
    /\ widgets' = [widgets EXCEPT !.error = <<[t |-> "failed", v |-> exc[1]]>>]
    /\ result' = <<>>
    /\ pc' = "s_complete"
    /\ UNCHANGED <<ui, created, local_agent, peer, agent, research_history, current_research,
                   question, exc, invokes, clock, history_at_call, outputs, view, i>>

\* lines 293-295: except Exception as e: st.error(...), return None
SExcept ==
    /\ pc = "s_except"
    /\ widgets' = [widgets EXCEPT !.error = <<[t |-> "failed", v |-> exc[1]]>>]
    /\ result' = <<>>
    /\ pc' = "s_returned"
    /\ UNCHANGED <<ui, created, local_agent, peer, agent, research_history, current_research,
                   question, exc, invokes, clock, history_at_call, outputs, view, i>>

\* SStore without line 811
SStoreHistoryOnly ==
    /\ pc = "s_returned"
    /\ IF result # <<>> /\ Truthy(result[1])
       THEN /\ research_history' =
                 Append(research_history, ResearchRecord(question, result[1], clock))
            /\ clock' = clock + 1
       ELSE UNCHANGED <<research_history, clock>>
    /\ pc' = "idle"
    /\ UNCHANGED <<ui, created, local_agent, peer, agent, current_research, question, result,
                   exc, invokes, history_at_call, outputs, view, widgets, i>>

\* run, lines 802-814: if result: store in session state, render the results
\* (render_research_results only draws: it changes none of the variables)
SStore ==
    /\ pc = "s_returned"
    /\ IF result # <<>> /\ Truthy(result[1])
       THEN LET research_record == ResearchRecord(question, result[1], clock)
            IN  /\ research_history' = Append(research_history, research_record)
                /\ current_research' = <<research_record>>
                /\ clock' = clock + 1
       ELSE UNCHANGED <<research_history, current_research, clock>>
    /\ pc' = "idle"
    /\ UNCHANGED <<ui, created, local_agent, peer, agent, question, result, exc, invokes,
                   history_at_call, outputs, view, widgets, i>>

-----------------------------------------------------------------------------

Next ==
    \/ \E q \in Questions : ConductResearch(q)
    \/ InitializeAgent
    \/ CreateAgent
    \/ ReturnAgent
    \/ GInvoke
    \/ GAgentReturns
    \/ GStore
    \/ GFormat
    \/ GExcept
    \/ GetResearchHistory
    \/ GetMemoryStatistics
    \/ ExportResearchResults
    \/ \E q \in Questions, start_research \in BOOLEAN : Run(q, start_research)
    \/ SCreateAgent
    \/ SPlanning
    \/ SResearching
    \/ SStep
    \/ SAnalyzing
    \/ SSynthesizing
    \/ SInvoke
    \/ SAgentReturns
    \/ SComplete
    \/ SExcept
    \/ SStore

Spec == Init /\ [][Next]_vars

\* The statements of a handler that has started: the interpreter runs the next
\* one, and the agent call returns or raises.
HandlerStep ==
    \/ InitializeAgent
    \/ CreateAgent
    \/ ReturnAgent
    \/ GInvoke
    \/ GAgentReturns
    \/ GStore
    \/ GFormat
    \/ GExcept
    \/ SCreateAgent
    \/ SPlanning
    \/ SResearching
    \/ SStep
    \/ SAnalyzing
    \/ SSynthesizing
    \/ SInvoke
    \/ SAgentReturns
    \/ SComplete
    \/ SExcept
    \/ SStore

FairSpec == Spec /\ WF_vars(HandlerStep)

-----------------------------------------------------------------------------
(* The result aggregation on its own: conduct_research from the point where  *)
(* the agent has returned r and the record is stored, for every r of         *)
(* ResultSpace.                                                              *)

\* the dict of the keys S of d
Restrict(d, S) == [k \in S |-> d[k]]

\* {k: v} when present is <<v>>, {} when it is <<>>
Entry(k, present) == IF present = <<>> THEN EmptyDict ELSE (k :> present[1])

FullConfidenceScores ==
    [researcher_avg |-> Num(850), critic_avg |-> Num(700), synthesis_confidence |-> Num(905)]

FullHypothesis ==
    [statement |-> "entanglement is nonlocal", type |-> "causal", confidence |-> Num(750)]

\* quality_assessment: every subset of its fields, {} among them
QualityChoices == {Restrict(FullQuality, S) : S \in SUBSET DOMAIN FullQuality}

\* multi_agent_analysis: {}, or confidence_scores with every subset of its fields
MultiAgentChoices ==
    {EmptyDict} \cup
    {[confidence_scores |-> Restrict(FullConfidenceScores, S)] :
        S \in SUBSET DOMAIN FullConfidenceScores}

\* hypotheses: [], or one or two hypotheses, the last with every subset of its fields
HypothesesChoices ==
    {<<>>} \cup
    {<<Restrict(FullHypothesis, S)>> : S \in SUBSET DOMAIN FullHypothesis} \cup
    {<<FullHypothesis, Restrict(FullHypothesis, S)>> : S \in SUBSET DOMAIN FullHypothesis}

Optional(S) == {<<>>} \cup {<<x>> : x \in S}

ResultSpace ==
    {Entry("final_answer", fa) @@ Entry("research_plan", <<FullResult.research_plan>>)
       @@ Entry("findings", <<FullResult.findings>>)
       @@ Entry("quality_assessment", qa) @@ Entry("multi_agent_analysis", ma)
       @@ Entry("hypotheses", hy) :
        fa \in Optional({Str("...")}), qa \in Optional(QualityChoices),
        ma \in Optional(MultiAgentChoices), hy \in Optional(HypothesesChoices)}

InitAgg ==
    /\ ui = "gradio"
    /\ pc = "g_format"
    /\ agent = "agent"
    /\ created = 1
    /\ local_agent = "agent"
    /\ peer = NoCall
    /\ \E r \in ResultSpace :
          /\ result = <<r>>
          /\ research_history = <<ResearchRecord(<<"q">>, r, 1)>>
    /\ current_research = <<>>
    /\ question = <<"q">>
    /\ exc = <<>>
    /\ invokes = 1
    /\ clock = 2
    /\ history_at_call = <<>>
    /\ outputs = NoOutputs
    /\ view = NoView
    /\ widgets = FreshWidgets
    /\ i = 0

NextAgg == GFormat \/ GExcept

SpecAgg == InitAgg /\ [][NextAgg]_vars

-----------------------------------------------------------------------------
(* The same point of conduct_research, for results whose findings and        *)
(* hypotheses vary in what they hold: SummarySpace.                          *)

\* one finding: external_research absent, [] or one snippet; sources_used absent,
\* without external sources, or with two
SummaryFindings ==
    {[step |-> 0, step_description |-> "Define terms"]
       @@ Entry("external_research", er) @@ Entry("sources_used", su) :
        er \in Optional({<<>>, <<"snippet">>}),
        su \in Optional({[external_sources |-> 0],
                         [memory_basic |-> 1, memory_advanced |-> 0, external_sources |-> 2]})}

\* the confidence an agent may put on a hypothesis: -0.2, 0, 0.75, 1, 1.5
ConfidenceChoices == {Num(0 - 200), Num(0), Num(750), Num(1000), Num(1500)}

SummaryHypotheses ==
    {<<>>} \cup
    {<<[FullHypothesis EXCEPT !.confidence = c]>> : c \in ConfidenceChoices} \cup
    {<<FullHypothesis, [FullHypothesis EXCEPT !.confidence = c]>> : c \in ConfidenceChoices}

SummarySpace ==
    {[final_answer |-> Str("...")] @@ Entry("research_plan", pl) @@ Entry("findings", <<fi>>)
       @@ Entry("hypotheses", <<hy>>) @@ Entry("quality_assessment", qa) :
        pl \in Optional({FullResult.research_plan}),
        fi \in {<<>>} \cup {<<f>> : f \in SummaryFindings}
                      \cup {<<f, g>> : f \in SummaryFindings, g \in SummaryFindings},
        hy \in SummaryHypotheses,
        qa \in Optional({FullQuality, ScoreOnlyResult.quality_assessment})}

InitSummaries ==
    /\ ui = "gradio"
    /\ pc = "g_format"
    /\ agent = "agent"
    /\ created = 1
    /\ local_agent = "agent"
    /\ peer = NoCall
    /\ \E r \in SummarySpace :
          /\ result = <<r>>
          /\ research_history = <<ResearchRecord(<<"q">>, r, 1)>>
    /\ current_research = <<>>
    /\ question = <<"q">>
    /\ exc = <<>>
    /\ invokes = 1
    /\ clock = 2
    /\ history_at_call = <<>>
    /\ outputs = NoOutputs
    /\ view = NoView
    /\ widgets = FreshWidgets
    /\ i = 0

SpecSummaries == InitSummaries /\ [][NextAgg]_vars

-----------------------------------------------------------------------------
(* Visualization adapter: streamlit_app.py lines 537-661.  In the results the *)
(* Streamlit pages draw, a text that is cut ([:n]) or searched is a sequence  *)
(* of characters or of tokens.                                                *)

DescriptionPreview == 50
AnswerPreview == 300

\* s[:n]
FirstN(s, n) == SubSeq(s, 1, Min({n, Len(s)}))

\* a / b (true division), a * n for an integer n, min(a, b), max(a, b)
Quotient(a, b) == Num((a.v * 1000) \div b.v)
Product(a, n) == Num(a.v * n)
NumMin(a, b) == IF a.v <= b.v THEN a ELSE b
NumMax(a, b) == IF a.v >= b.v THEN a ELSE b

\* lines 549-553 and 559: one point of the timeline
TimelinePoint(finding) ==
    IF "step" \notin DOMAIN finding THEN Raise("KeyError: 'step'")
    ELSE IF "step_description" \notin DOMAIN finding
         THEN Raise("KeyError: 'step_description'")
    ELSE Ok([step        |-> finding["step"] + 1,
             description |-> FirstN(finding["step_description"], DescriptionPreview)
                                \o <<"...">>,
             sources     |-> Get(Get(finding, "sources_used", EmptyDict),
                                 "external_sources", 0)])

\* ResearchTimeline leaving out the findings that name no sources
ResearchTimelineSourced(r) ==
    LET findings == Get(r, "findings", <<>>)
        sourced  == SelectSeq(findings, LAMBDA f : "sources_used" \in DOMAIN f)
        each     == [n \in 1..Len(sourced) |-> TimelinePoint(sourced[n])]
        raised   == FirstRaised(each)
    IN  IF ~Truthy(findings) THEN Ok(<<>>)
        ELSE IF raised # <<>> THEN Raise(raised[1])
        ELSE Ok([n \in 1..Len(sourced) |-> each[n].value])

\* create_research_timeline, lines 541-560: the points (x, text, marker colour)
ResearchTimeline(r) ==
    LET findings == Get(r, "findings", <<>>)
        each     == [n \in 1..Len(findings) |-> TimelinePoint(findings[n])]
        raised   == FirstRaised(each)
    IN  IF ~Truthy(findings) THEN Ok(<<>>)
        ELSE IF raised # <<>> THEN Raise(raised[1])
        ELSE Ok([n \in 1..Len(findings) |-> each[n].value])

\* the five radar values of lines 597-603, given the divisor of line 600
RadarMetrics(quality_assessment, completeness, divisor) ==
    IF divisor.v = 0 THEN Raise("ZeroDivisionError: division by zero")
    ELSE Ok(<<[theta |-> "Completeness", r |-> completeness],
              [theta |-> "Source Diversity",
               r |-> NumMin(Product(Quotient(Get(quality_assessment, "source_diversity", Num(0)),
                                             Num(4000)), 10),
                            Num(10000))],
              [theta |-> "External Validation",
               r |-> Product(Quotient(Get(quality_assessment, "external_sources_used", Num(0)),
                                      divisor), 10)],
              [theta |-> "Confidence",
               r |-> Product(Get(quality_assessment, "confidence_assessment", Num(0)), 10)],
              [theta |-> "Overall Quality",
               r |-> Get(quality_assessment, "overall_quality_score", Num(0))]>>)

\* QualityRadar with Completeness left unclamped (total_findings / 5 * 10)
QualityRadarNoClamp(r) ==
    LET quality_assessment == Get(r, "quality_assessment", EmptyDict)
    IN  IF ~Truthy(quality_assessment) THEN Ok(<<>>)
        ELSE RadarMetrics(quality_assessment,
                 Product(Quotient(Get(quality_assessment, "total_findings", Num(0)),
                                  Num(5000)), 10),
                 NumMax(Get(quality_assessment, "total_findings", Num(1000)), Num(1000)))

\* QualityRadar dividing by total_findings itself (no max(..., 1))
QualityRadarNoGuard(r) ==
    LET quality_assessment == Get(r, "quality_assessment", EmptyDict)
    IN  IF ~Truthy(quality_assessment) THEN Ok(<<>>)
        ELSE RadarMetrics(quality_assessment,
                 NumMin(Product(Quotient(Get(quality_assessment, "total_findings", Num(0)),
                                         Num(5000)), 10),
                        Num(10000)),
                 Get(quality_assessment, "total_findings", Num(1000)))

\* create_quality_radar_chart, lines 591-603: the metrics dict, in its order
QualityRadar(r) ==
    LET quality_assessment == Get(r, "quality_assessment", EmptyDict)
    IN  IF ~Truthy(quality_assessment) THEN Ok(<<>>)
        ELSE RadarMetrics(quality_assessment,
                 NumMin(Product(Quotient(Get(quality_assessment, "total_findings", Num(0)),
                                         Num(5000)), 10),
                        Num(10000)),
                 NumMax(Get(quality_assessment, "total_findings", Num(1000)), Num(1000)))

\* lines 643-647: the loop that adds one kind of source over the findings
RECURSIVE SourceTotal(_, _)
SourceTotal(findings, key) ==
    IF Len(findings) = 0 THEN 0
    ELSE SourceTotal(SubSeq(findings, 1, Len(findings) - 1), key)
         + Get(Get(findings[Len(findings)], "sources_used", EmptyDict), key, 0)

\* SourceDistribution drawing nothing when no source was used at all
SourceDistributionNonZero(r) ==
    LET findings == Get(r, "findings", <<>>)
        totals   == [key \in {"memory_basic", "memory_advanced", "external_sources"} |->
                        SourceTotal(findings, key)]
    IN  IF ~Truthy(findings) \/ \A key \in DOMAIN totals : totals[key] = 0 THEN Ok(<<>>)
        ELSE Ok(<<[label |-> "Memory (Basic)", value |-> totals["memory_basic"]],
                  [label |-> "Memory (Advanced)", value |-> totals["memory_advanced"]],
                  [label |-> "External Sources", value |-> totals["external_sources"]]>>)

\* create_source_distribution_chart, lines 631-654: the pie's labels and values
SourceDistribution(r) ==
    LET findings == Get(r, "findings", <<>>)
    IN  IF ~Truthy(findings) THEN Ok(<<>>)
        ELSE Ok(<<[label |-> "Memory (Basic)",
                   value |-> SourceTotal(findings, "memory_basic")],
                  [label |-> "Memory (Advanced)",
                   value |-> SourceTotal(findings, "memory_advanced")],
                  [label |-> "External Sources",
                   value |-> SourceTotal(findings, "external_sources")]>>)

-----------------------------------------------------------------------------
(* Report generator: streamlit_app.py lines 663-784.  An analysis text is a   *)
(* sequence of tokens: the two markers, whitespace and words.                 *)

\* str.split(sep): the pieces between the occurrences of sep
RECURSIVE Split(_, _)
Split(s, sep) ==
    LET at == {k \in 1..Len(s) : s[k] = sep}
    IN  IF at = {} THEN <<s>>
        ELSE <<SubSeq(s, 1, Min(at) - 1)>> \o Split(SubSeq(s, Min(at) + 1, Len(s)), sep)

\* line 748: analysis.split('KEY_FINDINGS:')[1].split('NEW_CONCEPTS:')[0].strip()
KeyFindings(analysis) == Strip(Split(Split(analysis, "KEY_FINDINGS:")[2], "NEW_CONCEPTS:")[1])

\* lines 745-749: the report's section of one finding
FindingSection(finding) ==
    IF "step" \notin DOMAIN finding THEN Raise("KeyError: 'step'")
    ELSE IF "step_description" \notin DOMAIN finding
         THEN Raise("KeyError: 'step_description'")
    ELSE LET analysis == Get(finding, "analysis", <<>>)
         IN  Ok(<<[k |-> "step", n |-> finding["step"] + 1,
                   text |-> finding["step_description"]]>>
                \o (IF \E n \in 1..Len(analysis) : analysis[n] = "KEY_FINDINGS:"
                    THEN <<[k |-> "key_findings", text |-> KeyFindings(analysis)]>>
                    ELSE <<>>))

\* lines 752-758: the quality block of the report
QualityBlock(quality_assessment) ==
    IF ~Truthy(quality_assessment) THEN <<>>
    ELSE <<[k |-> "header", text |-> "## Quality Assessment"],
           [k |-> "overall", v |-> Get(quality_assessment, "overall_quality_score", Str("N/A")),
                             suffix |-> "/10"],
           [k |-> "confidence",
            v |-> Get(quality_assessment, "confidence_assessment", Str("N/A"))],
           [k |-> "total_findings", v |-> Get(quality_assessment, "total_findings", Num(0))],
           [k |-> "external_sources_used",
            v |-> Get(quality_assessment, "external_sources_used", Num(0))]>>

\* lines 724-758: the report down to the footer
ReportBody(r, q) ==
    LET research_plan == Get(r, "research_plan", <<>>)
        findings      == Get(r, "findings", <<>>)
        each          == [n \in 1..Len(findings) |-> FindingSection(findings[n])]
        raised        == FirstRaised(each)
    IN  IF raised # <<>> THEN Raise(raised[1])
        ELSE Ok(<<[k |-> "header", text |-> "# Research Report"],
                  [k |-> "header", text |-> "## Research Question"],
                  [k |-> "question", text |-> q],
                  [k |-> "header", text |-> "## Final Answer"],
                  [k |-> "final_answer", v |-> Get(r, "final_answer", NoFinalAnswer)],
                  [k |-> "header", text |-> "## Research Process"]>>
                \o (IF Truthy(research_plan)
                    THEN <<[k |-> "header", text |-> "### Research Plan"]>>
                         \o [n \in 1..Len(research_plan) |->
                               [k |-> "plan_step", n |-> n, text |-> research_plan[n]]]
                    ELSE <<>>)
                \o (IF Truthy(findings)
                    THEN <<[k |-> "header", text |-> "### Key Findings"]>>
                         \o Flatten([n \in 1..Len(findings) |-> each[n].value])
                    ELSE <<>>)
                \o QualityBlock(Get(r, "quality_assessment", EmptyDict)))

\* GenerateMarkdownReport with the generation time in the quality block as well
GenerateMarkdownReportDated(r, q, now) ==
    LET body == ReportBody(r, q)
    IN  IF body.raised THEN body
        ELSE Ok(<<[generated_on |-> now,
                   content |-> body.value \o <<[k |-> "assessed_on", n |-> now]>>]>>)

\* generate_markdown_report, lines 722-762: the report and its footer, which
\* carries datetime.now()
GenerateMarkdownReport(r, q, now) ==
    LET body == ReportBody(r, q)
    IN  IF body.raised THEN body
        ELSE Ok(<<[generated_on |-> now, content |-> body.value]>>)

\* generate_summary_report, lines 764-784
GenerateSummaryReport(r, q) ==
    Ok(<<[k |-> "question", text |-> q],
         [k |-> "steps", n |-> Len(Get(r, "findings", <<>>))],
         [k |-> "quality_score",
          v |-> Get(Get(r, "quality_assessment", EmptyDict),
                    "overall_quality_score", Str("N/A")),
          suffix |-> "/10"],
         [k |-> "hypotheses", n |-> Len(Get(r, "hypotheses", <<>>))],
         [k |-> "final_answer_preview",
          text |-> (IF "final_answer" \in DOMAIN r
                    THEN FirstN(r["final_answer"].v, AnswerPreview)
                    ELSE <<"No final answer">>) \o <<"...">>]>>)

\* The text json.dumps writes: a tree of scalars (str, int, float, bool: written
\* and read back as themselves), arrays and objects.
JScalar(v) == [j |-> "scalar", v |-> v]
JArray(items) == [j |-> "array", items |-> items]
JObject(members) == [j |-> "object", members |-> members]

\* default=str: a value json cannot write is written as the string str(value)
JDefault(o) == JScalar(Str(o.v))

\* a list of scalars, a dict of scalars
JScalars(list) == JArray([n \in 1..Len(list) |-> JScalar(list[n])])
JScalarDict(d) == JObject([key \in DOMAIN d |-> JScalar(d[key])])

\* one finding: sources_used is a dict, external_research a list
JFinding(finding) ==
    JObject([key \in DOMAIN finding |->
               CASE key = "sources_used" -> JScalarDict(finding[key])
                 [] key = "external_research" -> JScalars(finding[key])
                 [] OTHER -> JScalar(finding[key])])

\* JsonDumps leaving out the keys whose value json cannot write
JsonDumpsSkip(r) ==
    LET written == DOMAIN r \ {"messages"}
    IN  Ok(JObject([key \in written |->
             CASE key = "research_plan" -> JScalars(r[key])
               [] key = "findings" ->
                    JArray([n \in 1..Len(r[key]) |-> JFinding(r[key][n])])
               [] key = "hypotheses" ->
                    JArray([n \in 1..Len(r[key]) |-> JScalarDict(r[key][n])])
               [] key = "quality_assessment" -> JScalarDict(r[key])
               [] OTHER -> JScalar(r[key])]))

\* json.dumps(result, indent=2, default=str), lines 691 and 704.  json.dumps
\* walks the value by its Python type; the walk is written out per key of the
\* result, whose values have the types of the agent's state.
JsonDumps(r) ==
    Ok(JObject([key \in DOMAIN r |->
         CASE key = "research_plan" -> JScalars(r[key])
           [] key = "findings" ->
                JArray([n \in 1..Len(r[key]) |-> JFinding(r[key][n])])
           [] key = "hypotheses" ->
                JArray([n \in 1..Len(r[key]) |-> JScalarDict(r[key][n])])
           [] key = "quality_assessment" -> JScalarDict(r[key])
           [] key = "messages" ->
                JArray([n \in 1..Len(r[key]) |-> JDefault(r[key][n])])
           [] OTHER -> JScalar(r[key])]))

-----------------------------------------------------------------------------
(* The Streamlit results page and the exports of both front ends, for every   *)
(* result of RenderSpace: what render_research_results draws of the current   *)
(* research (lines 333-372, 520-535, 663-720) and what the Gradio export      *)
(* button returns.                                                            *)

\* a text of n characters
Chars(n) == [k \in 1..n |-> "x"]

AnalysisTokens == {"KEY_FINDINGS:", "NEW_CONCEPTS:", " ", "entanglement is..."}

\* the analysis of the agent's usual form, and every text of up to MaxTokens tokens
AnalysisChoices ==
    {<<"KEY_FINDINGS:", " ", "entanglement is...", " ", "NEW_CONCEPTS:", " ", "none">>}
    \cup UNION {[1..n -> AnalysisTokens] : n \in 0..MaxTokens}

SourceKinds == {"memory_basic", "memory_advanced", "external_sources"}

\* sources_used: every subset of the three counts, each 0..MaxSources
SourcesChoices == UNION {[kinds -> 0..MaxSources] : kinds \in SUBSET SourceKinds}

RenderFinding ==
    [step |-> 0, step_description |-> Chars(12),
     sources_used |-> [memory_basic |-> 1, memory_advanced |-> 0, external_sources |-> 2],
     analysis |-> <<"KEY_FINDINGS:", " ", "entanglement is...", " ", "NEW_CONCEPTS:", " ",
                    "none">>]

\* the first finding: one field of RenderFinding varied or absent
FindingChoices ==
    {[RenderFinding EXCEPT !.analysis = a] : a \in AnalysisChoices}
    \cup {[RenderFinding EXCEPT !.sources_used = su] : su \in SourcesChoices}
    \cup {[RenderFinding EXCEPT !.step_description = Chars(n)] :
             n \in {0, DescriptionPreview, DescriptionPreview + 1}}
    \cup {Restrict(RenderFinding, DOMAIN RenderFinding \ {key}) :
             key \in {"analysis", "sources_used", "step"}}

\* the second finding
NextFindings ==
    {[step |-> 1, step_description |-> Chars(DescriptionPreview + 10),
      sources_used |-> [memory_basic |-> 2, external_sources |-> 1],
      analysis |-> <<"KEY_FINDINGS:", "none">>],
     [step |-> 1, step_description |-> Chars(3)],
     [step |-> 4, step_description |-> Chars(3), sources_used |-> [memory_advanced |-> 2],
      external_research |-> <<"snippet">>]}

FindingLists ==
    {<<>>} \cup {<<f>> : f \in FindingChoices}
           \cup {<<f, g>> : f \in FindingChoices, g \in NextFindings}

\* quality_assessment: the three counts absent or one of a few values, and the
\* two scores absent or one of a few values
RadarQualities ==
    {Entry("total_findings", tf) @@ Entry("source_diversity", sd)
       @@ Entry("external_sources_used", ex)
       @@ [confidence_assessment |-> Num(800), overall_quality_score |-> Num(7000)] :
        tf \in Optional({Num(0), Num(1000), Num(2000), Num(4000), Num(5000), Num(50000)}),
        sd \in Optional({Num(0), Num(1000), Num(3000), Num(4000), Num(100000)}),
        ex \in Optional({Num(0), Num(2000), Num(5000)})}
    \cup
    {Entry("confidence_assessment", ca) @@ Entry("overall_quality_score", oq)
       @@ Entry("total_findings", tf) :
        ca \in Optional({Num(0), Num(800), Num(1000)}),
        oq \in Optional({Num(0), Num(7000), Num(10000)}),
        tf \in Optional({Num(1000)})}

RenderQuality ==
    [overall_quality_score |-> Num(7000), confidence_assessment |-> Num(800),
     total_findings |-> Num(1000), external_sources_used |-> Num(2000),
     source_diversity |-> Num(1000)]

\* a value json cannot write (a message object of the agent's state)
Obj(name) == [t |-> "obj", v |-> name]

RenderSpace ==
    {[final_answer |-> Str(Chars(3)), research_plan |-> FullResult.research_plan,
      findings |-> <<RenderFinding>>, quality_assessment |-> qa] : qa \in RadarQualities}
    \cup
    {[final_answer |-> Str(Chars(3)), research_plan |-> FullResult.research_plan,
      findings |-> fi, quality_assessment |-> RenderQuality] : fi \in FindingLists}
    \cup
    {Entry("final_answer", fa) @@ Entry("research_plan", pl) @@ Entry("findings", fi)
       @@ Entry("hypotheses", hy) @@ Entry("quality_assessment", qa)
       @@ Entry("messages", ms) :
        fa \in Optional({Str(Chars(AnswerPreview + 1))}),
        pl \in Optional({FullResult.research_plan}),
        fi \in Optional({<<RenderFinding>>}),
        hy \in Optional({<<FullHypothesis>>}),
        qa \in Optional({RenderQuality}),
        ms \in Optional({<<Obj("HumanMessage"), Obj("AIMessage")>>})}

\* the progress widgets after run_research_with_progress has completed
CompletedWidgets ==
    [overall_progress      |-> 100,
     current_step_progress |-> SimulatedSteps,
     status_text           |-> "success: Research completed successfully!",
     current_step_text     |-> SimulatedSteps,
     planning_status       |-> "success: done",
     research_status       |-> "success: done",
     intelligence_status   |-> "success: done",
     synthesis_status      |-> "success: done",
     error                 |-> <<>>]

\* Streamlit: run has stored the record of r (lines 802-809) and is about to
\* render it.  Gradio: conduct_research has returned for r.
InitRender ==
    /\ clock = 2
    /\ invokes = 1
    /\ history_at_call = <<>>
    /\ question = <<" ", "q">>
    /\ peer = NoCall
    /\ \/ /\ ui = "streamlit"
          /\ agent = "None"
          /\ created = 0
          /\ local_agent = "None"
          /\ \E r \in RenderSpace :
                /\ result = <<r>>
                /\ research_history = <<ResearchRecord(question, r, 1)>>
                /\ current_research = <<ResearchRecord(question, r, 1)>>
          /\ exc = <<>>
          /\ outputs = NoOutputs
          /\ view = SidebarHistory(<<>>)
          /\ widgets = CompletedWidgets
          /\ i = SimulatedSteps
       \/ /\ ui = "gradio"
          /\ agent = "agent"
          /\ created = 1
          /\ local_agent = "agent"
          /\ \E r \in AgentResults :
                /\ result = <<r>>
                /\ research_history = <<ResearchRecord(question, r, 1)>>
                /\ LET formatted == FormatResults(r)
                   IN  IF formatted.raised
                       THEN exc = <<formatted.exc>> /\ outputs = ResearchFailed(formatted.exc)
                       ELSE exc = <<>> /\ outputs = formatted.value
          /\ current_research = <<>>
          /\ view = NoView
          /\ widgets = FreshWidgets
          /\ i = 0
    /\ pc = "idle"

\* what a function of the page has drawn, or the exception that left it
Drawn(fn, outcome) ==
    IF outcome.raised
    THEN [fn |-> fn, entries |-> <<>>, exception |-> outcome.exc]
    ELSE [fn |-> fn, entries |-> outcome.value]

\* run, lines 811 and 816-819: render_research_results(result, question) is
\* called with the current research
Rendering == ui = "streamlit" /\ pc = "idle" /\ current_research # <<>>

\* the times datetime.now() may return
Now == clock..(clock + MaxWait)

CreateResearchTimeline ==
    /\ Rendering
    /\ view' = Drawn("create_research_timeline", ResearchTimeline(current_research[1].result))
    /\ UNCHANGED <<ui, created, local_agent, peer, pc, agent, research_history,
                   current_research, question, result, exc, invokes, clock, history_at_call,
                   outputs, widgets, i>>

CreateQualityRadarChart ==
    /\ Rendering
    /\ view' = Drawn("create_quality_radar_chart", QualityRadar(current_research[1].result))
    /\ UNCHANGED <<ui, created, local_agent, peer, pc, agent, research_history,
                   current_research, question, result, exc, invokes, clock, history_at_call,
                   outputs, widgets, i>>

CreateSourceDistributionChart ==
    /\ Rendering
    /\ view' = Drawn("create_source_distribution_chart",
                     SourceDistribution(current_research[1].result))
    /\ UNCHANGED <<ui, created, local_agent, peer, pc, agent, research_history,
                   current_research, question, result, exc, invokes, clock, history_at_call,
                   outputs, widgets, i>>

\* export_as_pdf, lines 698-700: st.info
ExportAsPdf ==
    /\ Rendering
    /\ view' = [fn |-> "export_as_pdf", entries |-> <<>>]
    /\ UNCHANGED <<ui, created, local_agent, peer, pc, agent, research_history,
                   current_research, question, result, exc, invokes, clock, history_at_call,
                   outputs, widgets, i>>

\* export_as_json, lines 702-710: the download button's data and file name
ExportAsJson ==
    /\ Rendering
    /\ \E stamp \in Now :
          LET json_str == JsonDumps(current_research[1].result)
          IN  view' = Drawn("export_as_json",
                            IF json_str.raised THEN json_str
                            ELSE Ok(<<[data |-> json_str.value, file_name |-> stamp]>>))
    /\ UNCHANGED <<ui, created, local_agent, peer, pc, agent, research_history,
                   current_research, question, result, exc, invokes, clock, history_at_call,
                   outputs, widgets, i>>

\* ExportAsMarkdown keeping a record of the export in the history
ExportAsMarkdownRecorded ==
    /\ Rendering
    /\ \E now \in Now, stamp \in Now :
          /\ now <= stamp
          /\ LET markdown_content ==
                     GenerateMarkdownReport(current_research[1].result,
                                            current_research[1].question, now)
             IN  /\ view' = Drawn("export_as_markdown",
                               IF markdown_content.raised THEN markdown_content
                               ELSE Ok(<<[data |-> markdown_content.value[1],
                                          file_name |-> stamp]>>))
                 /\ research_history' =
                        IF markdown_content.raised THEN research_history
                        ELSE Append(research_history,
                                    [current_research[1] EXCEPT !.timestamp = stamp])
    /\ UNCHANGED <<ui, created, local_agent, peer, pc, agent, current_research, question,
                   result, exc, invokes, clock, history_at_call, outputs, widgets, i>>

\* export_as_markdown, lines 712-720: the download button's data and file name
ExportAsMarkdown ==
    /\ Rendering
    /\ \E now \in Now, stamp \in Now :
          /\ now <= stamp
          /\ LET markdown_content ==
                     GenerateMarkdownReport(current_research[1].result,
                                            current_research[1].question, now)
             IN  view' = Drawn("export_as_markdown",
                               IF markdown_content.raised THEN markdown_content
                               ELSE Ok(<<[data |-> markdown_content.value[1],
                                          file_name |-> stamp]>>))
    /\ UNCHANGED <<ui, created, local_agent, peer, pc, agent, research_history,
                   current_research, question, result, exc, invokes, clock, history_at_call,
                   outputs, widgets, i>>

\* render_export_options, lines 681-696: the preview in the selected format
ExportPreview(export_format) ==
    /\ Rendering
    /\ \E now \in Now :
          LET r        == current_research[1].result
              q        == current_research[1].question
              markdown == GenerateMarkdownReport(r, q, now)
              json     == JsonDumps(r)
              summary  == GenerateSummaryReport(r, q)
          IN  view' =
                CASE export_format = "Markdown" ->
                        Drawn("preview_markdown",
                              IF markdown.raised THEN markdown
                              ELSE Ok(<<[data |-> markdown.value[1]]>>))
                  [] export_format = "JSON" ->
                        Drawn("preview_json",
                              IF json.raised THEN json ELSE Ok(<<[data |-> json.value]>>))
                  [] export_format = "Summary" ->
                        Drawn("preview_summary", Ok(<<[data |-> summary.value]>>))
    /\ UNCHANGED <<ui, created, local_agent, peer, pc, agent, research_history,
                   current_research, question, result, exc, invokes, clock, history_at_call,
                   outputs, widgets, i>>

NextRender ==
    \/ CreateResearchTimeline
    \/ CreateQualityRadarChart
    \/ CreateSourceDistributionChart
    \/ ExportAsPdf
    \/ ExportAsJson
    \/ ExportAsMarkdown
    \/ \E export_format \in {"Markdown", "JSON", "Summary"} : ExportPreview(export_format)
    \/ ExportResearchResults

SpecRender == InitRender /\ [][NextRender]_vars

-----------------------------------------------------------------------------
(* A Streamlit session from the first return of run_research_with_progress,  *)
(* for results with and without a quality score, and the runs that follow.   *)

\* what the first agent call returned: with a score, without quality_assessment,
\* with a quality_assessment that has no score, and {}
SessionResults ==
    {FullResult, ScoreOnlyResult, EmptyDict,
     [final_answer |-> Str("...")],
     [final_answer |-> Str("..."), quality_assessment |-> [confidence_assessment |-> Num(800)]]}

InitSession ==
    /\ ui = "streamlit"
    /\ pc = "s_returned"
    /\ agent = "None"
    /\ created = 0
    /\ local_agent = "None"
    /\ peer = NoCall
    /\ research_history = <<>>
    /\ current_research = <<>>
    /\ question = <<" ", "q">>
    /\ \E r \in SessionResults : result = <<r>>
    /\ exc = <<>>
    /\ invokes = 1
    /\ clock = 1
    /\ history_at_call = <<>>
    /\ outputs = NoOutputs
    /\ view = SidebarHistory(<<>>)
    /\ widgets = CompletedWidgets
    /\ i = SimulatedSteps

NextSession ==
    \/ \E q \in Questions, start_research \in BOOLEAN : Run(q, start_research)
    \/ SCreateAgent
    \/ SPlanning
    \/ SResearching
    \/ SStep
    \/ SAnalyzing
    \/ SSynthesizing
    \/ SInvoke
    \/ SAgentReturns
    \/ SComplete
    \/ SExcept
    \/ SStore

SpecSession == InitSession /\ [][NextSession]_vars

-----------------------------------------------------------------------------
(* Two conduct_research calls on one GradioResearchInterface.  create_interface *)
(* registers the bound method of the one instance main() builds as the click  *)
(* handler (lines 355-359) and launch() serves it (lines 384-393): the server *)
(* runs the handler of each request on a worker thread, and nothing in the    *)
(* class holds a lock.  The variables pc, question, result, exc, invokes,     *)
(* local_agent, history_at_call and outputs are the locals of the call whose  *)
(* thread runs; peer holds those of the other call.                           *)

Locals ==
    [pc |-> pc, question |-> question, result |-> result, exc |-> exc, invokes |-> invokes,
     local_agent |-> local_agent, history_at_call |-> history_at_call, outputs |-> outputs]

\* the worker thread of the other call is scheduled
Switch ==
    /\ ui = "gradio"
    /\ peer # Locals
    /\ peer' = Locals
    /\ pc' = peer.pc
    /\ question' = peer.question
    /\ result' = peer.result
    /\ exc' = peer.exc
    /\ invokes' = peer.invokes
    /\ local_agent' = peer.local_agent
    /\ history_at_call' = peer.history_at_call
    /\ outputs' = peer.outputs
    /\ UNCHANGED <<ui, agent, created, research_history, current_research, clock, view,
                   widgets, i>>

\* a click on the research button while the history is short
Request(q) ==
    /\ Len(research_history) < MaxShared
    /\ ConductResearch(q)

InitThreads == Init /\ ui = "gradio"

NextThreads ==
    \/ \E q \in Questions : Request(q)
    \/ InitializeAgent
    \/ CreateAgent
    \/ ReturnAgent
    \/ GInvoke
    \/ GAgentReturns
    \/ GStore
    \/ GFormat
    \/ GExcept
    \/ Switch

SpecThreads == InitThreads /\ [][NextThreads]_vars

-----------------------------------------------------------------------------
(* What the front ends show of a research session *)

\* The status of the session of the last research call, read off the handler's
\* position and, once it has returned, off what it returned or displayed.
SessionStatus ==
    IF ui = "gradio"
    THEN CASE pc = "g_try" -> "Pending"
           [] pc \in {"g_create", "g_return", "g_invoke", "g_invoking", "g_store", "g_format",
                      "g_except"} -> "Running"
           [] pc = "idle" /\ outputs.final_answer.t = "failed" -> "Failed"
           [] pc = "idle" /\ outputs.final_answer.t = "str" -> "Completed"
           [] OTHER -> "None"
    ELSE CASE widgets.status_text = "success: Research completed successfully!" -> "Completed"
           [] widgets.error # <<>> -> "Failed"
           [] pc = "s_try" -> "Pending"
           [] pc \in {"s_planning", "s_researching", "s_loop", "s_synthesizing", "s_invoke",
                      "s_invoking", "s_complete", "s_except"} -> "Running"
           [] OTHER -> "None"

\* The stage the Streamlit progress tracker shows
Stage ==
    IF widgets.error # <<>> THEN "Failed"
    ELSE CASE widgets.status_text = "" -> "Idle"
           [] widgets.status_text = "info: Creating research plan..." -> "Planning"
           [] widgets.status_text = "info: Executing research steps..." -> "Researching"
           [] widgets.status_text = "info: Running intelligence analysis..." -> "Analyzing"
           [] widgets.status_text = "info: Synthesizing final answer..." -> "Synthesizing"
           [] widgets.status_text = "success: Research completed successfully!" -> "Completed"

StageOrder == <<"Idle", "Planning", "Researching", "Analyzing", "Synthesizing", "Completed">>

StageIndex(stage) == CHOOSE n \in 1..Len(StageOrder) : StageOrder[n] = stage

InProgressIndicators == {"warning: Research", "warning: Intelligence", "warning: Synthesis"}

-----------------------------------------------------------------------------
(* Claims *)

\* C1: a research run that ends by reporting a failure to the caller (Gradio:
\* the first output is "Research failed: ..." or "Please enter ..."; Streamlit:
\* run_research_with_progress returned None) leaves the history exactly as it
\* was when the run started.
C1_FailedRunLeavesHistory ==
    /\ (ui = "gradio" /\ pc = "idle" /\ outputs.final_answer.t \in {"failed", "lit"})
          => research_history = history_at_call
    /\ (ui = "streamlit" /\ pc = "s_returned" /\ result = <<>>)
          => research_history = history_at_call
    /\ (ui = "streamlit" /\ pc = "idle" /\ widgets.error # <<>>)
          => research_history = history_at_call

\* C2: a research call whose question is empty or whitespace-only after
\* trimming returns at once: the handler enters no further step, the agent is
\* neither created nor invoked, and the history and the current research
\* record are unchanged.
C2_BlankQuestionRejected ==
    [][(pc = "idle" /\ Strip(question') = <<>>)
          => /\ pc' = "idle"
             /\ agent' = agent
             /\ invokes' = 0
             /\ research_history' = research_history
             /\ current_research' = current_research]_vars

C2_Witness ==
    /\ ui = "gradio" /\ pc = "idle"
    /\ question = <<" ">>
    /\ outputs = PleaseEnter
    /\ agent = "agent"
    /\ Len(research_history) > 0

\* C3: an exception raised by agent creation or by the agent call is handled by
\* the except block of the research operation: the operation returns normally,
\* the session is Failed, and what is reported carries the error's message.
C3_AgentErrorCaught ==
    [][/\ (exc = <<>> /\ exc' # <<>>) => pc' \in {"g_except", "s_except"}
       /\ pc = "g_except"
             => /\ pc' = "idle"
                /\ outputs' = ResearchFailed(exc[1])
                /\ SessionStatus' = "Failed"
       /\ pc = "s_except"
             => /\ pc' = "s_returned"
                /\ result' = <<>>
                /\ widgets'.error = <<[t |-> "failed", v |-> exc[1]]>>
                /\ SessionStatus' = "Failed"]_vars

C3_Witness ==
    /\ ui = "streamlit" /\ pc = "s_returned"
    /\ invokes = 1
    /\ exc # <<>> /\ exc[1] \in AgentErrors
    /\ widgets.error # <<>>

\* C4: the history is append-only: every step of every handler leaves the
\* history it found as a prefix of the history it leaves.
C4_HistoryAppendOnly ==
    [][/\ Len(research_history) <= Len(research_history')
       /\ SubSeq(research_history', 1, Len(research_history)) = research_history]_vars

C4_Witness ==
    /\ Len(research_history) > HistoryWindow
    /\ view.fn = "get_research_history"
    /\ Len(view.entries) = HistoryWindow

\* C5: the recent-history listing (Gradio get_research_history, Streamlit
\* sidebar) lists the last HistoryWindow records, the newest record first, and
\* all records when there are fewer.
C5_RecentHistoryNewestFirst ==
    [][(view' # view /\ view'.fn \in {"get_research_history", "render_sidebar"})
          => LET recent == LastN(research_history, HistoryWindow)
             IN  /\ Len(view'.entries) = Len(recent)
                 /\ \A n \in 1..Len(recent) :
                       view'.entries[n].timestamp = recent[Len(recent) + 1 - n].timestamp]_vars

\* C6: the status of a session changes only Pending -> Running, Running ->
\* Completed and Running -> Failed; a Completed or Failed session changes only
\* when the next research call replaces it.
C6_StatusOrder ==
    [][\/ SessionStatus' = SessionStatus
       \/ <<SessionStatus, SessionStatus'>> \in
            {<<"None", "Pending">>, <<"Pending", "Running">>,
             <<"Running", "Completed">>, <<"Running", "Failed">>}
       \/ /\ SessionStatus \in {"Completed", "Failed"}
          /\ SessionStatus' \in {"None", "Pending"}
          /\ pc = "idle"]_vars

C6_Witness ==
    /\ SessionStatus = "Failed"
    /\ invokes = 1
    /\ pc = "idle"

\* C7: a research session calls agent.invoke at most once, also when the call
\* raises.
C7_SingleInvocation == invokes <= 1

C7_Witness ==
    /\ pc = "idle"
    /\ invokes = 1
    /\ exc # <<>> /\ exc[1] \in AgentErrors

\* C8: within one run the tracker's stage stays, moves to the next stage of
\* Idle, Planning, Researching, Analyzing, Synthesizing, Completed, or moves
\* from a non-terminal stage to Failed; the overall progress never decreases;
\* Completed is shown only when the agent call has returned a result.
C8_StageOrder ==
    [][\/ pc = "idle" /\ widgets' = FreshWidgets
       \/ /\ \/ Stage' = Stage
             \/ Stage \notin {"Completed", "Failed"} /\ Stage' = "Failed"
             \/ /\ Stage # "Failed" /\ Stage' # "Failed"
                /\ StageIndex(Stage') = StageIndex(Stage) + 1
          /\ widgets'.overall_progress >= widgets.overall_progress
          /\ Stage' = "Completed" => (result' # <<>> /\ exc' = <<>> /\ invokes' = 1)]_vars

C8_Witness ==
    /\ Stage = "Completed"
    /\ widgets.overall_progress = 100
    /\ pc = "s_returned"

\* C9: once the agent call has raised and the failure is shown, the tracker's
\* stage is Failed and no stage indicator is left in an in-progress state.
C9_FailureClearsIndicators ==
    widgets.error # <<>>
        => /\ Stage = "Failed"
           /\ widgets.research_status \notin InProgressIndicators
           /\ widgets.intelligence_status \notin InProgressIndicators
           /\ widgets.synthesis_status \notin InProgressIndicators
           /\ widgets.status_text \notin {"info: Creating research plan...",
                                          "info: Executing research steps...",
                                          "info: Running intelligence analysis...",
                                          "info: Synthesizing final answer..."}

\* C10: for every result, whatever fields of quality_assessment,
\* multi_agent_analysis and hypotheses are absent, the process, intelligence
\* and quality summaries are produced: the formatting raises nothing, and in
\* particular the quality summary raises nothing.
C10_AggregationTotal ==
    /\ pc = "g_except" => ~QualitySummary(result[1]).raised
    /\ pc # "g_except"
    /\ outputs.final_answer.t # "failed"

\* C11: for every result the process summary lists the research plan numbered
\* from 1 in the plan's order, reports the number of findings, and reports as
\* "External sources consulted" the number of findings whose
\* sources_used.external_sources is greater than 0.
C11_ProcessSummary ==
    (pc = "idle" /\ outputs.final_answer.t = "str")
        => LET r        == result[1]
               plan     == Get(r, "research_plan", <<>>)
               findings == Get(r, "findings", <<>>)
               steps    == {n \in 1..Len(outputs.process) :
                              outputs.process[n].k = "plan_step"}
               external == {n \in 1..Len(findings) :
                              Get(Get(findings[n], "sources_used", EmptyDict),
                                  "external_sources", 0) > 0}
           IN  /\ Cardinality(steps) = Len(plan)
               /\ \A n \in steps :
                     /\ outputs.process[n].n = n - 2
                     /\ outputs.process[n].text = plan[n - 2]
               /\ \E n \in 1..Len(outputs.process) :
                     /\ outputs.process[n].k = "total_steps"
                     /\ outputs.process[n].n = Len(findings)
               /\ \E n \in 1..Len(outputs.process) :
                     /\ outputs.process[n].k = "external_consulted"
                     /\ outputs.process[n].n = Cardinality(external)

\* C12: for every quality assessment whose fields lie in their declared ranges
\* (counts >= 0, confidence in [0,1], overall score in [0,10]) each of the five
\* values of the quality radar lies in [0,10].
C12_RadarInRange ==
    view.fn = "create_quality_radar_chart"
        => \A n \in 1..Len(view.entries) :
              view.entries[n].r.v >= 0 /\ view.entries[n].r.v <= 10000

\* C12, amended: Completeness, Source Diversity, Confidence and Overall Quality
\* lie in [0,10]; External Validation is not negative, and lies in [0,10]
\* whenever external_sources_used <= max(total_findings, 1).
C12_RadarInRangeAmended ==
    view.fn = "create_quality_radar_chart"
        => LET qa == Get(current_research[1].result, "quality_assessment", EmptyDict)
               ex == Get(qa, "external_sources_used", Num(0)).v
               tf == Get(qa, "total_findings", Num(0)).v
           IN  /\ "exception" \notin DOMAIN view
               /\ Truthy(qa) => Len(view.entries) = 5
               /\ \A n \in 1..Len(view.entries) :
                     /\ view.entries[n].r.v >= 0
                     /\ view.entries[n].theta # "External Validation"
                           => view.entries[n].r.v <= 10000
                     /\ (view.entries[n].theta = "External Validation"
                           /\ ex <= Max({tf, 1000}))
                           => view.entries[n].r.v <= 10000

C12_Witness ==
    /\ view.fn = "create_quality_radar_chart"
    /\ Len(view.entries) = 5
    /\ view.entries[1].r.v < 10000
    /\ view.entries[2].r.v = 10000
    /\ view.entries[3].r.v > 10000

\* C13: for all non-negative integers total_findings, source_diversity and
\* external_sources_used (absent: the default) the radar is drawn without a
\* division by zero and Completeness = min(total_findings/5*10, 10),
\* SourceDiversity = min(source_diversity/4*10, 10), ExternalValidation =
\* external_sources_used / max(total_findings, 1) * 10; total_findings = 50 and
\* source_diversity = 100 give exactly 10 for both.
C13_RadarFormulas ==
    view.fn = "create_quality_radar_chart"
        => LET qa == Get(current_research[1].result, "quality_assessment", EmptyDict)
               tf == Get(qa, "total_findings", Num(0)).v
               sd == Get(qa, "source_diversity", Num(0)).v
               ex == Get(qa, "external_sources_used", Num(0)).v
           IN  /\ "exception" \notin DOMAIN view
               /\ Truthy(qa)
                    => /\ Len(view.entries) = 5
                       /\ view.entries[1].theta = "Completeness"
                       /\ view.entries[1].r.v = (IF tf >= 5000 THEN 10000 ELSE 2 * tf)
                       /\ view.entries[2].theta = "Source Diversity"
                       /\ 4 * view.entries[2].r.v = (IF sd >= 4000 THEN 40000 ELSE 10 * sd)
                       /\ view.entries[3].theta = "External Validation"
                       /\ view.entries[3].r.v * Max({tf, 1000}) = ex * 10000
                       /\ tf = 50000 => view.entries[1].r.v = 10000
                       /\ sd = 100000 => view.entries[2].r.v = 10000

C13_Witness ==
    /\ view.fn = "create_quality_radar_chart"
    /\ Len(view.entries) = 5
    /\ LET qa == current_research[1].result.quality_assessment
       IN  /\ "total_findings" \in DOMAIN qa /\ qa.total_findings = Num(0)
           /\ view.entries[3].r.v = 50000

\* C14: in the Markdown report of a result whose findings all carry step and
\* step_description, every finding's section is followed by a key-findings
\* block exactly when its analysis holds KEY_FINDINGS: and, after it,
\* NEW_CONCEPTS:, the block then being the text between the two markers
\* (stripped); with either marker missing the block is omitted; the report is
\* generated without an exception.  (Analyses in which a marker occurs twice,
\* or NEW_CONCEPTS: only before KEY_FINDINGS:, are left aside.)
C14_KeyFindingsBlock ==
    (/\ view.fn \in {"export_as_markdown", "preview_markdown"}
     /\ \A f \in {current_research[1].result.findings[n] :
                    n \in 1..Len(Get(current_research[1].result, "findings", <<>>))} :
           {"step", "step_description"} \subseteq DOMAIN f)
        => /\ "exception" \notin DOMAIN view
           /\ LET findings == Get(current_research[1].result, "findings", <<>>)
                  content  == view.entries[1].data.content
                  steps    == {m \in 1..Len(content) : content[m].k = "step"}
              IN  /\ Cardinality(steps) = Len(findings)
                  /\ \A n \in 1..Len(findings) :
                        LET at       == CHOOSE m \in steps :
                                           Cardinality({x \in steps : x < m}) = n - 1
                            analysis == Get(findings[n], "analysis", <<>>)
                            kf       == {x \in 1..Len(analysis) : analysis[x] = "KEY_FINDINGS:"}
                            nc       == {x \in 1..Len(analysis) : analysis[x] = "NEW_CONCEPTS:"}
                            block    == at < Len(content) /\ content[at + 1].k = "key_findings"
                        IN  /\ (kf = {} \/ nc = {}) => ~block
                            /\ (Cardinality(kf) = 1 /\ Cardinality(nc) = 1 /\ Min(kf) < Min(nc))
                                  => /\ block
                                     /\ content[at + 1].text =
                                           Strip(SubSeq(analysis, Min(kf) + 1, Min(nc) - 1))

\* C15: for every result with at least one finding the source distribution is
\* three totals, each the sum over the findings (at most two here) of
\* memory_basic, memory_advanced and external_sources, a missing count adding
\* 0; totals that are all zero are produced like any other.
C15_SourceTotals ==
    (/\ view.fn = "create_source_distribution_chart"
     /\ Truthy(Get(current_research[1].result, "findings", <<>>)))
        => LET findings == current_research[1].result.findings
               count(n, kind) ==
                   IF n > Len(findings) \/ "sources_used" \notin DOMAIN findings[n]
                      \/ kind \notin DOMAIN findings[n].sources_used
                   THEN 0
                   ELSE findings[n].sources_used[kind]
           IN  /\ "exception" \notin DOMAIN view
               /\ Len(findings) <= 2
               /\ Len(view.entries) = 3
               /\ view.entries[1] = [label |-> "Memory (Basic)",
                                     value |-> count(1, "memory_basic") + count(2, "memory_basic")]
               /\ view.entries[2] = [label |-> "Memory (Advanced)",
                                     value |-> count(1, "memory_advanced")
                                               + count(2, "memory_advanced")]
               /\ view.entries[3] = [label |-> "External Sources",
                                     value |-> count(1, "external_sources")
                                               + count(2, "external_sources")]

C15_Witness ==
    /\ view.fn = "create_source_distribution_chart"
    /\ Len(view.entries) = 3
    /\ Len(current_research[1].result.findings) = 2
    /\ \A n \in 1..3 : view.entries[n].value = 0

\* C16: the timeline of a result whose findings all carry step and
\* step_description has exactly one point per finding, in the findings' order:
\* (the finding's step + 1, its description cut to DescriptionPreview characters
\* and marked as cut, its external_sources count, 0 when absent); a result
\* without findings gives the empty dataset and no exception.
C16_Timeline ==
    (/\ view.fn = "create_research_timeline"
     /\ \A f \in {current_research[1].result.findings[n] :
                    n \in 1..Len(Get(current_research[1].result, "findings", <<>>))} :
           {"step", "step_description"} \subseteq DOMAIN f)
        => LET findings == Get(current_research[1].result, "findings", <<>>)
           IN  /\ "exception" \notin DOMAIN view
               /\ Len(view.entries) = Len(findings)
               /\ \A n \in 1..Len(findings) :
                     LET point == view.entries[n]
                         text  == findings[n].step_description
                     IN  /\ point.step = findings[n].step + 1
                         /\ Len(point.description) <= DescriptionPreview + 1
                         /\ point.description[Len(point.description)] = "..."
                         /\ \A x \in 1..(Len(point.description) - 1) :
                               point.description[x] = text[x]
                         /\ Len(point.description) - 1 =
                               (IF Len(text) < DescriptionPreview THEN Len(text)
                                ELSE DescriptionPreview)
                         /\ point.sources =
                               (IF "sources_used" \in DOMAIN findings[n]
                                   /\ "external_sources" \in DOMAIN findings[n].sources_used
                                THEN findings[n].sources_used.external_sources
                                ELSE 0)

C16_Witness ==
    /\ view.fn = "create_research_timeline"
    /\ Len(view.entries) = 2
    /\ Len(current_research[1].result.findings[1].step_description) > DescriptionPreview
    /\ view.entries[2].step = 5
    /\ view.entries[2].sources = 0

\* C17: for every result, the text of the JSON export (download and preview),
\* parsed, holds every key of the result, the same final_answer, the same
\* research plan, as many findings and the same quality score.
C17_JsonRoundTrip ==
    view.fn \in {"export_as_json", "preview_json"}
        => /\ "exception" \notin DOMAIN view
           /\ LET RECURSIVE Loads(_)
                  Loads(text) ==
                      CASE text.j = "scalar" -> text.v
                        [] text.j = "array" ->
                             [n \in 1..Len(text.items) |-> Loads(text.items[n])]
                        [] text.j = "object" ->
                             [key \in DOMAIN text.members |-> Loads(text.members[key])]
                  r      == current_research[1].result
                  parsed == Loads(view.entries[1].data)
              IN  /\ DOMAIN parsed = DOMAIN r
                  /\ "final_answer" \in DOMAIN r => parsed["final_answer"] = r["final_answer"]
                  /\ "research_plan" \in DOMAIN r
                        => parsed["research_plan"] = r["research_plan"]
                  /\ "findings" \in DOMAIN r => Len(parsed["findings"]) = Len(r["findings"])
                  /\ "quality_assessment" \in DOMAIN r
                        => /\ DOMAIN parsed["quality_assessment"] = DOMAIN r["quality_assessment"]
                           /\ "overall_quality_score" \in DOMAIN r["quality_assessment"]
                                 => parsed["quality_assessment"]["overall_quality_score"]
                                       = r["quality_assessment"]["overall_quality_score"]

C17_Witness ==
    /\ view.fn = "export_as_json"
    /\ view.entries # <<>>
    /\ {"final_answer", "research_plan", "findings", "quality_assessment", "messages"}
          \subseteq DOMAIN current_research[1].result
    /\ view.entries[1].data.members["messages"].items[1].v.t = "str"

\* C18: every hypothesis confidence the intelligence summary shows lies in
\* [0,1], whatever confidence the agent supplied.
C18_ConfidenceClamped ==
    \A n \in 1..Len(outputs.intelligence) :
        outputs.intelligence[n].k = "hyp_confidence"
            => outputs.intelligence[n].v.v >= 0 /\ outputs.intelligence[n].v.v <= 100

\* C19: two generations of the Markdown report for the same result and question
\* give the same text (or the same exception) apart from the time in the
\* footer, and generating the report leaves the result as it was.
C19_MarkdownDeterministic ==
    [][view'.fn \in {"export_as_markdown", "preview_markdown"}
          => /\ current_research' = current_research
             /\ result' = result
             /\ view.fn \in {"export_as_markdown", "preview_markdown"}
                   => /\ ("exception" \in DOMAIN view') = ("exception" \in DOMAIN view)
                      /\ "exception" \in DOMAIN view => view'.exception = view.exception
                      /\ "exception" \notin DOMAIN view
                            => view'.entries[1].data.content = view.entries[1].data.content]_vars

C19_Witness ==
    /\ view.fn = "export_as_markdown"
    /\ view.entries # <<>>
    /\ view.entries[1].data.generated_on > clock
    /\ \E n \in 1..Len(view.entries[1].data.content) :
          view.entries[1].data.content[n].k = "key_findings"

\* C20: an export (Markdown, JSON, summary, PDF; the download, the preview and
\* the Gradio export), whether it produces its text or fails, leaves the
\* history, the current research record and the outputs of the session as they
\* were.
C20_ExportFrame ==
    [][view'.fn \in {"export_as_markdown", "preview_markdown", "export_as_json",
                     "preview_json", "preview_summary", "export_as_pdf",
                     "export_research_results"}
          => /\ research_history' = research_history
             /\ current_research' = current_research
             /\ result' = result
             /\ outputs' = outputs
             /\ agent' = agent
             /\ pc' = pc]_vars

C20_Witness ==
    /\ view.fn = "export_as_markdown"
    /\ "exception" \in DOMAIN view
    /\ Len(research_history) = 1
    /\ current_research # <<>>

\* C21: research runs do not interleave: while one conduct_research call is
\* between its start and its history append, no other call begins, invokes the
\* agent or appends to the shared history.
C21_RunsDoNotInterleave ==
    [][(/\ peer' = peer
        /\ peer.pc \in {"g_try", "g_create", "g_return", "g_invoke", "g_invoking", "g_store"})
          => /\ ~(pc = "idle" /\ pc' = "g_try")
             /\ ~(pc = "g_invoke" /\ pc' = "g_invoking")
             /\ research_history' = research_history]_vars

\* C22: the Streamlit tracker changes nothing while agent.invoke is in flight:
\* when the call starts, Planning, Researching, Analyzing and Synthesizing have
\* all been displayed; once the call is over, the tracker (bars, indicators and
\* status text) changes only on a normal return, to Completed.
C22_NoStageChangeInFlight ==
    [][/\ (pc = "s_invoking" \/ pc' = "s_invoking") => widgets' = widgets
       /\ pc' = "s_invoking"
             => /\ widgets.planning_status = "success: Planning"
                /\ widgets.research_status = "warning: Research"
                /\ widgets.intelligence_status = "warning: Intelligence"
                /\ widgets.synthesis_status = "warning: Synthesis"
                /\ widgets.current_step_progress = SimulatedSteps
                /\ Stage = "Synthesizing"
       /\ pc \in {"s_complete", "s_except", "s_returned"}
             => \/ [widgets' EXCEPT !.error = <<>>] = [widgets EXCEPT !.error = <<>>]
                \/ /\ pc = "s_complete" /\ result # <<>> /\ exc = <<>>
                   /\ Stage = "Synthesizing" /\ Stage' = "Completed"]_vars

C22_Witness ==
    /\ pc = "s_invoking"
    /\ Stage = "Synthesizing"
    /\ widgets.overall_progress = 90
    /\ Len(research_history) = 1

\* C23: every research run that has started reaches a terminal outcome and
\* returns control: the handler is back at idle with the session Completed or
\* Failed.
C23_RunsTerminate ==
    (pc # "idle") ~> (pc = "idle" /\ SessionStatus \in {"Completed", "Failed"})

C23_Witness ==
    /\ pc = "idle"
    /\ SessionStatus = "Completed"
    /\ invokes = 1
    /\ Len(research_history) = 2

\* C24: in Streamlit the current research record is None exactly when the
\* history is empty, and otherwise it is the last record of the history; every
\* record carries the question that was submitted and, as quality_score, its
\* result's overall_quality_score, or 'N/A' when the result has none.
C24_CurrentIsLastRecord ==
    /\ [](ui = "streamlit"
            => /\ (current_research = <<>>) <=> (research_history = <<>>)
               /\ research_history # <<>>
                     => current_research[1] = research_history[Len(research_history)]
               /\ \A n \in 1..Len(research_history) :
                     LET rec == research_history[n]
                     IN  rec.quality_score =
                           IF /\ "quality_assessment" \in DOMAIN rec.result
                              /\ "overall_quality_score" \in DOMAIN rec.result.quality_assessment
                           THEN rec.result.quality_assessment.overall_quality_score
                           ELSE Str("N/A"))
    /\ [][research_history' # research_history
            => /\ Len(research_history') = Len(research_history) + 1
               /\ SubSeq(research_history', 1, Len(research_history)) = research_history
               /\ research_history'[Len(research_history')].question = question
               /\ research_history'[Len(research_history')].result = result[1]]_vars

C24_Witness ==
    /\ ui = "streamlit" /\ pc = "idle"
    /\ Len(research_history) = 2
    /\ research_history[1].quality_score = Str("N/A")
    /\ research_history[2].quality_score = Num(7000)
    /\ current_research = <<research_history[2]>>

\* C25: the two front ends have the same effect on the history: when a research
\* call is over, the history is the history the call found, followed, exactly
\* when the agent returned a result (an empty one included), by one record of
\* the question, that result and its quality_score; the front end makes no
\* difference.
C25_SameHistoryEffect ==
    pc = "idle"
        => IF result = <<>>
           THEN research_history = history_at_call
           ELSE /\ Len(research_history) = Len(history_at_call) + 1
                /\ SubSeq(research_history, 1, Len(history_at_call)) = history_at_call
                /\ LET rec == research_history[Len(research_history)]
                   IN  /\ rec.question = question
                       /\ rec.result = result[1]
                       /\ rec.quality_score =
                             Get(Get(result[1], "quality_assessment", EmptyDict),
                                 "overall_quality_score", Str("N/A"))

\* C26: in Gradio, create_agent has returned an agent at most once, and every
\* call that invokes an agent invokes that first agent.
C26_AgentCreatedOnce ==
    /\ created <= 1
    /\ pc \in {"g_invoke", "g_invoking"} => local_agent = AgentObjects[1]
    /\ peer.pc \in {"g_invoke", "g_invoking"} => peer.local_agent = AgentObjects[1]

====
